---- MODULE Spec2Model ----
(***************************************************************************)
(* within: run a command in several directories, at most max_jobs at a    *)
(* time, prefixing every output line with "<directory>: ".                 *)
(*                                                                         *)
(* The model follows the select() implementation of main(), start_job(),   *)
(* start_piper(), run_piper() and remove_piper().  The orchestrating       *)
(* process is a sequential program whose position is pc; the children and  *)
(* the kernel (pipes, process exit, SIGCHLD) are the environment.          *)
(***************************************************************************)
EXTENDS Integers, Sequences, FiniteSets, TLC

(* ------------------------------ bounds --------------------------------- *)

\* largest -j value tried
MaxJobs == 2
\* longest directory list tried
MaxDirs == 2
\* most bytes the command writes (to both streams) when it runs in one
\* directory
MaxBytes == 3
\* most bytes the command writes to its standard output in each directory
\* when it runs in several
MaxShared == 1
\* longest argument vector (after the options) tried
MaxArgs == 4
\* most options on a command line tried
MaxOpts == 1

\* directory names the list is drawn from (the same name may occur twice)
DirNames == {"d1", "d2"}
\* bytes a command may write
Bytes == {"a", "\n"}
\* the two standard streams; a piper's out_file is the parent's stream of
\* the same name
Files == {"stdout", "stderr"}

NULL == "NULL"

(* ------------------------------ state ---------------------------------- *)

VARIABLES
    opts,           \* what getopt() finds: the options of the command line
    args,           \* argv after the options (argv += optind)
    command,        \* the command vector
    max_jobs,       \* -j option
    directories,    \* the directory list (num_directories is its length)
    linebuf,        \* stdout of the orchestrator is line buffered (a tty)
    quota,          \* per stream: most bytes the command writes to it
    pc,             \* position of the orchestrator in main()
    directory,      \* main: number of directories started so far
    num_jobs,       \* main: children started and not yet reaped
    status,         \* main: aggregate status
    pipers,         \* the linked list of pipers, head first (piper ids)
    heap,           \* allocated struct piper, by id
    rdopen,         \* pipe read ends open in the orchestrator
    piper_fds,      \* fd_set filled in by select()
    piper,          \* main: loop cursor over the list
    piper_next,     \* main: saved piper->next
    intr,           \* a SIGCHLD arrived while inside select()
    exit_code,      \* exit code of the orchestrator (-1 while running)
    child,          \* per job: the child process
    pipe,           \* per job and stream: bytes in the pipe, not yet read
    wopen,          \* per job and stream: some write end is still open
    wrote,          \* per job and stream: everything written to the pipe
    nonzero,        \* some child ended with a wait status other than 0
    inherited,      \* per job: copy of the stdout buffer taken by fork()
    sink,           \* per FILE: everything written to it, in order
    flushed         \* number of items of sink["stdout"] already flushed

config  == <<opts, args, command, max_jobs, directories, linebuf, quota>>
mainv   == <<pc, directory, num_jobs, status, piper_fds, piper, piper_next,
             intr, exit_code>>
listv   == <<pipers, heap, rdopen>>
kernelv == <<child, pipe, wopen, wrote, nonzero, inherited>>
outv    == <<sink, flushed>>
vars    == <<config, mainv, listv, kernelv, outv>>

num_directories == Len(directories)
Jobs == 1..num_directories

(* ------------------------------ helpers -------------------------------- *)

\* read buffer of run_piper
BufSize == 4096

Min(a, b) == IF a < b THEN a ELSE b

\* the text fprintf(out_file, "%s: ", prefix) writes
PrefixText(prefix) == prefix \o ": "

\* the read end of job j's pipe for stream f identifies the piper
Fd(j, f) == <<j, f>>

\* sequence s without its element x
RECURSIVE Without(_, _)
Without(s, x) ==
    IF s = <<>> THEN <<>>
    ELSE IF Head(s) = x THEN Tail(s)
    ELSE <<Head(s)>> \o Without(Tail(s), x)

\* index of x in s (0 when absent)
IndexOf(s, x) ==
    IF \E i \in 1..Len(s) : s[i] = x
    THEN CHOOSE i \in 1..Len(s) : s[i] = x
    ELSE 0

\* p->next in list
NextOf(list, p) ==
    LET i == IndexOf(list, p)
    IN  IF i = 0 \/ i = Len(list) THEN NULL ELSE list[i + 1]

\* wait status as waitpid() reports it: exit code in bits 8..15, or the
\* terminating signal in the low bits
WaitStatus(how) ==
    IF how.kind = "exit" THEN (how.code % 256) * 256 ELSE how.sig

\* ways a command can end
ExitKinds ==
    { [kind |-> "exit", code |-> 0, sig |-> 0],
      [kind |-> "exit", code |-> 1, sig |-> 0],
      [kind |-> "signal", code |-> 0, sig |-> 9] }

\* what err(1, ...) in the child prints on its standard error
Diag == <<"!", "\n">>

(* --------------------------- initial state ----------------------------- *)

\* directory lists up to the renaming of directories: the first entry is
\* d1, and d2 occurs only after d1
DirLists ==
    { l \in UNION { [1..n -> DirNames] : n \in 1..MaxDirs } :
        \A i \in 1..Len(l) : l[i] = "d2" => \E k \in 1..(i - 1) : l[k] = "d1" }

\* how much the command writes to each of its streams, at most, when it
\* runs in n directories
Quotas(n) ==
    IF n = 1
    THEN { q \in [Files -> 0..MaxBytes] : q["stdout"] + q["stderr"] <= MaxBytes }
    ELSE { [stdout |-> k, stderr |-> 0] : k \in 0..MaxShared }

\* a process that has not been forked yet
Unborn ==
    [state |-> "unborn", path |-> "none", wstatus |-> 0, dir |-> "none",
     cmd |-> <<>>]

\* the decimal digits of a limit, as given to -j
Optarg(n) == <<<<"0", "1", "2", "3", "4", "5", "6", "7", "8", "9">>[n + 1]>>

\* main() after parse_options() and signal(), for the command line
\* "within -j<max_jobs> <directories> - c": there is at least one
\* directory, so the outer and the inner loop are entered.  A limit above
\* the number of directories behaves as one equal to it.
Init ==
    /\ directories \in DirLists
    /\ max_jobs \in 1..Min(MaxJobs, Len(directories))
    /\ command = <<"c">>
    /\ args = directories \o <<"-">> \o command
    /\ opts = << [opt |-> "j", arg |-> Optarg(max_jobs)] >>
    /\ linebuf \in BOOLEAN
    /\ quota \in Quotas(Len(directories))
    /\ pc = "start"
    /\ directory = 0
    /\ num_jobs = 0
    /\ status = 0
    /\ pipers = <<>>
    /\ heap = <<>>
    /\ rdopen = {}
    /\ piper_fds = {}
    /\ piper = NULL
    /\ piper_next = NULL
    /\ intr = FALSE
    /\ exit_code = -1
    /\ child = [j \in Jobs |-> Unborn]
    /\ pipe = [j \in Jobs |-> [f \in Files |-> <<>>]]
    /\ wopen = [j \in Jobs |-> [f \in Files |-> FALSE]]
    /\ wrote = [j \in Jobs |-> [f \in Files |-> <<>>]]
    /\ nonzero = FALSE
    /\ inherited = [j \in Jobs |-> <<>>]
    /\ sink = [f \in Files |-> <<>>]
    /\ flushed = 0

(* ------------------------------ stdio ---------------------------------- *)

\* the text of a sequence of written items
RECURSIVE TextOf(_)
TextOf(items) ==
    IF items = <<>> THEN <<>> ELSE <<Head(items).b>> \o TextOf(Tail(items))

\* what the stdout buffer of the orchestrator holds
StdoutBuffer == TextOf(SubSeq(sink["stdout"], flushed + 1, Len(sink["stdout"])))

\* index of the last newline put to seq (0 when there is none)
LastNewline(seq) ==
    LET nl == { i \in 1..Len(seq) : seq[i].kind = "data" /\ seq[i].b = "\n" }
    IN  IF nl = {} THEN 0 ELSE CHOOSE i \in nl : \A k \in nl : k <= i

\* items of stdout on the device after `seq` has been written: a line
\* buffered stream is flushed at each newline, a fully buffered one at exit
FlushedAfter(seq) ==
    IF linebuf /\ LastNewline(seq) > flushed THEN LastNewline(seq) ELSE flushed

\* exit(): stdio flushes what is buffered
ExitFlush == flushed' = Len(sink'["stdout"])

(* --------------------------- main: the loop ---------------------------- *)

\* the same without the test of the piper list
LoopCondNoPipers(jobs, list, dir) == jobs # 0 \/ dir < num_directories

\* while (num_jobs || pipers || directory < num_directories)
LoopCond(jobs, list, dir) ==
    jobs # 0 \/ list # <<>> \/ dir < num_directories

\* the same with <= for <
CanStartOneMore(jobs, dir) == jobs <= max_jobs /\ dir < num_directories

\* while (num_jobs < max_jobs && directory < num_directories)
CanStart(jobs, dir) == jobs < max_jobs /\ dir < num_directories

\* the exit code the parent of the orchestrator sees: the low 8 bits
ExitCode(st) == st % 256

\* return status
Return ==
    /\ pc' = "done"
    /\ exit_code' = ExitCode(status')
    /\ sink' = sink
    /\ ExitFlush

\* err(1, ...) in the orchestrator: report, flush and exit with code 1
Fatal ==
    /\ pc' = "fatal"
    /\ exit_code' = 1
    /\ sink' = sink
    /\ ExitFlush

(* ------------------------- start_job, start_piper ---------------------- *)

\* the same with the flag left as memset() set it
FirstNewlineUnset == FALSE

\* piper->newline = 1
FirstNewline == TRUE

\* the same with every piper writing to stdout
NewPiperOneSink(in_fd, out_file, prefix) ==
    [in_fd |-> in_fd, out_file |-> "stdout", prefix |-> prefix,
     newline |-> FirstNewline]

\* struct piper as start_piper() fills it in
NewPiper(in_fd, out_file, prefix) ==
    [in_fd |-> in_fd, out_file |-> out_file, prefix |-> prefix,
     newline |-> FirstNewline]

\* piper->next = pipers; pipers = piper
AddToList(list, p) == <<p>> \o list

\* the list after start_job(): the stdout piper is added first, then the
\* stderr piper
ListAfterStart(list, j) ==
    AddToList(AddToList(list, Fd(j, "stdout")), Fd(j, "stderr"))

\* what the forked child does: it runs the command, or chdir()/execvp()
\* fails and it leaves through err(1, ...)
ChildStarts == {"exec", "chdir"}

\* the same, taking the list from its end
LastDirectory(dir) == num_directories - dir

\* directories[directory]: the entry of the list the next job runs in
\* (entries are numbered from 1 here)
NextDirectory(dir) == dir + 1

\* start_job(directories[directory]); num_jobs++; directory++
StartJob ==
    /\ pc = "start"
    /\ CanStart(num_jobs, directory)
    /\ LET j == NextDirectory(directory)
           dir == directories[j]
       IN  /\ \E how \in ChildStarts :
                child' = [child EXCEPT ![j] =
                    [state |-> "running", path |-> how, wstatus |-> 0,
                     dir |-> dir, cmd |-> command]]
           /\ wopen' = [wopen EXCEPT ![j] = [f \in Files |-> TRUE]]
           /\ inherited' = [inherited EXCEPT ![j] = StdoutBuffer]
           /\ heap' = (Fd(j, "stdout") :> NewPiper(Fd(j, "stdout"), "stdout", dir))
                      @@ (Fd(j, "stderr") :> NewPiper(Fd(j, "stderr"), "stderr", dir))
                      @@ heap
           /\ pipers' = ListAfterStart(pipers, j)
           /\ rdopen' = rdopen \cup {Fd(j, "stdout"), Fd(j, "stderr")}
    /\ num_jobs' = num_jobs + 1
    /\ directory' = directory + 1
    /\ UNCHANGED <<config, pc, status, piper_fds, piper, piper_next, intr,
                   exit_code, pipe, wrote, nonzero, outv>>

\* pipe(), fork(), malloc() or fcntl() fails
StartJobFail ==
    /\ pc = "start"
    /\ CanStart(num_jobs, directory)
    /\ Fatal
    /\ UNCHANGED <<config, directory, num_jobs, status, piper_fds, piper,
                   piper_next, intr, listv, kernelv>>

\* the inner loop is left; the fd_set is built and select() is entered
EnterSelect ==
    /\ pc = "start"
    /\ ~CanStart(num_jobs, directory)
    /\ pc' = "select"
    /\ UNCHANGED <<config, directory, num_jobs, status, piper_fds, piper,
                   piper_next, intr, exit_code, listv, kernelv, outv>>

(* ------------------------------ select() ------------------------------- *)

\* a pipe read end is readable when it holds data or every write end is
\* closed (end of file)
Readable(fd) == pipe[fd[1]][fd[2]] # <<>> \/ ~wopen[fd[1]][fd[2]]

\* the pipers whose in_fd select() reports: every listed piper is in the set
\* passed in
ReadySet == { pipers[i] : i \in { k \in 1..Len(pipers) : Readable(pipers[k]) } }

\* for (piper = from; piper; piper = piper->next): the first piper at or
\* after `from` whose in_fd is set in fds
FirstSet(list, fds, from) ==
    LET i0 == IndexOf(list, from)
        hit == { i \in 1..Len(list) : i >= i0 /\ i0 # 0 /\ list[i] \in fds }
    IN  IF hit = {} THEN NULL
        ELSE list[CHOOSE i \in hit : \A k \in hit : i <= k]

\* the for loop goes on from `from` with the fd_set `fds`: run_piper() is
\* called for the next piper that is set, or the loop ends
Dispatch(list, fds, from) ==
    LET p == FirstSet(list, fds, from)
    IN  /\ piper' = p
        /\ piper_next' = IF p = NULL THEN NULL ELSE NextOf(list, p)
        /\ pc' = IF p = NULL THEN "reap" ELSE "read"
        /\ piper_fds' = IF p = NULL THEN {} ELSE fds

\* select() returned a count
SelectReturns ==
    /\ Dispatch(pipers, ReadySet, Head(pipers))
    /\ intr' = FALSE

\* select() polls the descriptors; with none ready it goes to sleep
SelectPoll ==
    /\ pc = "select"
    /\ IF ReadySet # {}
       THEN SelectReturns
       ELSE /\ pc' = "sleep"
            /\ UNCHANGED <<piper_fds, piper, piper_next, intr>>
    /\ UNCHANGED <<config, directory, num_jobs, status, exit_code, listv,
                   kernelv, outv>>

\* the sleeping select() is woken: by the signal (-1, EINTR: no piper is
\* run) or by a descriptor that became ready
SelectWake ==
    /\ pc = "sleep"
    /\ IF intr
       THEN /\ pc' = "reap"
            /\ intr' = FALSE
            /\ UNCHANGED <<piper_fds, piper, piper_next>>
       ELSE /\ ReadySet # {}
            /\ SelectReturns
    /\ UNCHANGED <<config, directory, num_jobs, status, exit_code, listv,
                   kernelv, outv>>

(* ------------------------------ run_piper ------------------------------ *)

\* piper->newline = buf[i] == '\n'
IsNewline(c) == c = "\n"

\* if (piper->newline) fprintf(out_file, "%s: ", prefix)
NeedsPrefix(p) == p.newline

\* the same with the prefix written as soon as a newline has been written
RECURSIVE RunLoopEager(_, _)
RunLoopEager(p, buf) ==
    IF buf = <<>> THEN [out |-> <<>>, newline |-> FALSE]
    ELSE LET first == IF p.newline
                      THEN << [src |-> p.in_fd, kind |-> "prefix",
                               b |-> PrefixText(p.prefix)] >>
                      ELSE <<>>
             put == << [src |-> p.in_fd, kind |-> "data", b |-> Head(buf)] >>
             post == IF IsNewline(Head(buf))
                     THEN << [src |-> p.in_fd, kind |-> "prefix",
                              b |-> PrefixText(p.prefix)] >>
                     ELSE <<>>
             rest == RunLoopEager([p EXCEPT !.newline = FALSE], Tail(buf))
         IN  [out |-> first \o put \o post \o rest.out, newline |-> FALSE]

\* the same with the loop ended at i < num_read - 1
RECURSIVE RunLoopShort(_, _)
RunLoopShort(p, buf) ==
    IF Len(buf) <= 1 THEN [out |-> <<>>, newline |-> p.newline]
    ELSE LET pre == IF p.newline
                    THEN << [src |-> p.in_fd, kind |-> "prefix",
                             b |-> PrefixText(p.prefix)] >>
                    ELSE <<>>
             put == << [src |-> p.in_fd, kind |-> "data", b |-> Head(buf)] >>
             rest == RunLoopShort([p EXCEPT !.newline = IsNewline(Head(buf))],
                                  Tail(buf))
         IN  [out |-> pre \o put \o rest.out, newline |-> rest.newline]

\* the for loop over one buffer: what is written to out_file, and the flag
\* afterwards
RECURSIVE RunLoop(_, _)
RunLoop(p, buf) ==
    IF buf = <<>> THEN [out |-> <<>>, newline |-> p.newline]
    ELSE LET pre == IF NeedsPrefix(p)
                    THEN << [src |-> p.in_fd, kind |-> "prefix",
                             b |-> PrefixText(p.prefix)] >>
                    ELSE <<>>
             put == << [src |-> p.in_fd, kind |-> "data", b |-> Head(buf)] >>
             rest == RunLoop([p EXCEPT !.newline = IsNewline(Head(buf))],
                             Tail(buf))
         IN  [out |-> pre \o put \o rest.out, newline |-> rest.newline]

\* what one read(in_fd, buf, sizeof(buf)) takes from the pipe
ReadChunk(data) == SubSeq(data, 1, Min(Len(data), BufSize))

\* the same, unlinking every piper of the job
RemoveJobFromList(list, p) == SelectSeq(list, LAMBDA q : q[1] # p[1])

\* remove_piper: unlink from the list
RemoveFromList(list, p) == Without(list, p)

\* read() returned > 0: the for loop, then read() again
ReadData ==
    /\ pc = "read"
    /\ LET p == heap[piper]
           j == p.in_fd[1]
           f == p.in_fd[2]
           chunk == ReadChunk(pipe[j][f])
           r == RunLoop(p, chunk)
       IN  /\ pipe[j][f] # <<>>
           /\ pipe' = [pipe EXCEPT ![j][f] =
                          SubSeq(@, Len(chunk) + 1, Len(@))]
           /\ sink' = [sink EXCEPT ![p.out_file] = @ \o r.out]
           /\ flushed' = IF p.out_file = "stdout"
                         THEN FlushedAfter(sink'["stdout"])
                         ELSE flushed
           /\ heap' = [heap EXCEPT ![piper].newline = r.newline]
    /\ UNCHANGED <<config, mainv, pipers, rdopen, child, wopen, wrote,
                   nonzero, inherited>>

\* the same with EAGAIN taken for end of file
ReadAgainRemoves ==
    /\ pc = "read"
    /\ LET fd == heap[piper].in_fd
       IN  pipe[fd[1]][fd[2]] = <<>> /\ wopen[fd[1]][fd[2]]
    /\ pipers' = RemoveFromList(pipers, piper)
    /\ heap' = [q \in DOMAIN heap \ {piper} |-> heap[q]]
    /\ Dispatch(pipers', piper_fds, piper_next)
    /\ UNCHANGED <<config, directory, num_jobs, status, intr, exit_code,
                   rdopen, kernelv, outv>>

\* read() returned -1 with EAGAIN: nothing to read for now
ReadAgain ==
    /\ pc = "read"
    /\ LET fd == heap[piper].in_fd
       IN  pipe[fd[1]][fd[2]] = <<>> /\ wopen[fd[1]][fd[2]]
    /\ Dispatch(pipers, piper_fds, piper_next)
    /\ UNCHANGED <<config, directory, num_jobs, status, intr, exit_code,
                   listv, kernelv, outv>>

\* read() returned 0: remove_piper(piper), which unlinks and frees the piper
\* and leaves in_fd as it is
ReadEof ==
    /\ pc = "read"
    /\ LET fd == heap[piper].in_fd
       IN  pipe[fd[1]][fd[2]] = <<>> /\ ~wopen[fd[1]][fd[2]]
    /\ pipers' = RemoveFromList(pipers, piper)
    /\ heap' = [q \in DOMAIN heap \ {piper} |-> heap[q]]
    /\ rdopen' = rdopen
    /\ Dispatch(pipers', piper_fds, piper_next)
    /\ UNCHANGED <<config, directory, num_jobs, status, intr, exit_code,
                   kernelv, outv>>

\* read() returned -1 with another error: err(1, "read")
ReadFail ==
    /\ pc = "read"
    /\ Fatal
    /\ UNCHANGED <<config, directory, num_jobs, status, piper_fds, piper,
                   piper_next, intr, listv, kernelv>>

(* ------------------------ main: collecting exits ----------------------- *)

\* the same with status = (child_status != 0)
AggregateLast(st, child_status) == IF child_status # 0 THEN 1 ELSE 0

\* the same with status = child_status
AggregateRaw(st, child_status) == IF child_status # 0 THEN child_status ELSE st

\* if (child_status) status = 1
Aggregate(st, child_status) == IF child_status # 0 THEN 1 ELSE st

Zombies == { j \in Jobs : child[j].state = "zombie" }

\* waitpid(-1, &child_status, WNOHANG) returned a child, which the kernel
\* forgets
Reap ==
    /\ pc = "reap"
    /\ num_jobs # 0
    /\ \E j \in Zombies :
         /\ child' = [child EXCEPT ![j].state = "reaped", ![j].wstatus = 0]
         /\ status' = Aggregate(status, child[j].wstatus)
    /\ num_jobs' = num_jobs - 1
    /\ UNCHANGED <<config, pc, directory, piper_fds, piper, piper_next, intr,
                   exit_code, listv, pipe, wopen, wrote, nonzero, inherited,
                   outv>>

\* num_jobs is 0 or waitpid() returned 0: the while loop is left and the
\* condition of the outer loop is tested
ReapDone ==
    /\ pc = "reap"
    /\ num_jobs = 0 \/ Zombies = {}
    /\ status' = status
    /\ IF LoopCond(num_jobs, pipers, directory)
       THEN /\ pc' = "start"
            /\ UNCHANGED <<exit_code, outv>>
       ELSE Return
    /\ UNCHANGED <<config, directory, num_jobs, piper_fds, piper, piper_next,
                   intr, listv, kernelv>>

(* ------------------------------ children ------------------------------- *)

\* SIGCHLD is delivered to the orchestrator: sig_chld() does nothing, and a
\* select() in progress is interrupted
Sigchld == intr' = (intr \/ pc \in {"select", "sleep"})

\* the command writes a byte to one of its streams
ChildWrite(j, f, c) ==
    /\ child[j].state = "running"
    /\ child[j].path = "exec"
    /\ wopen[j][f]
    /\ Len(wrote[j][f]) < quota[f]
    /\ pipe' = [pipe EXCEPT ![j][f] = Append(@, c)]
    /\ wrote' = [wrote EXCEPT ![j][f] = Append(@, c)]
    /\ UNCHANGED <<config, mainv, listv, child, wopen, nonzero, inherited,
                   outv>>

\* the process of job j ends: first its descriptors are closed ...
ProcessEnds(j) ==
    /\ child' = [child EXCEPT ![j].state = "exiting"]
    /\ wopen' = [wopen EXCEPT ![j] = [f \in Files |-> FALSE]]

\* the command ends (exit, or death by a signal)
ChildExit(j) ==
    /\ child[j].state = "running"
    /\ child[j].path = "exec"
    /\ ProcessEnds(j)
    /\ UNCHANGED <<config, mainv, listv, pipe, wrote, nonzero, inherited,
                   outv>>

\* chdir() or execvp() failed in the child: err() prints on standard error,
\* which is the pipe by now
ChildErr(j) ==
    /\ child[j].state = "running"
    /\ child[j].path = "chdir"
    /\ child' = [child EXCEPT ![j].state = "err"]
    /\ pipe' = [pipe EXCEPT ![j]["stderr"] = @ \o Diag]
    /\ wrote' = [wrote EXCEPT ![j]["stderr"] = @ \o Diag]
    /\ UNCHANGED <<config, mainv, listv, wopen, nonzero, inherited, outv>>

\* ... and calls exit(1): stdio flushes the stdout buffer the child got from
\* fork() into its standard output
ChildErrExit(j) ==
    /\ child[j].state = "err"
    /\ ProcessEnds(j)
    /\ pipe' = [pipe EXCEPT ![j]["stdout"] = @ \o inherited[j]]
    /\ wrote' = [wrote EXCEPT ![j]["stdout"] = @ \o inherited[j]]
    /\ UNCHANGED <<config, mainv, listv, nonzero, inherited, outv>>

\* how the process of job j ended: a command in any way, the failure path
\* by exit(1)
EndsOf(j) ==
    IF child[j].path = "chdir"
    THEN { [kind |-> "exit", code |-> 1, sig |-> 0] }
    ELSE ExitKinds

\* ... then it becomes a zombie and SIGCHLD is sent to the orchestrator
ChildZombie(j, how) ==
    /\ child[j].state = "exiting"
    /\ how \in EndsOf(j)
    /\ child' = [child EXCEPT ![j].state = "zombie",
                              ![j].wstatus = WaitStatus(how)]
    /\ nonzero' = (nonzero \/ WaitStatus(how) # 0)
    /\ Sigchld
    /\ UNCHANGED <<config, pc, directory, num_jobs, status, piper_fds, piper,
                   piper_next, exit_code, listv, pipe, wopen, wrote,
                   inherited, outv>>

(* ---------------------------- parse_options ---------------------------- *)

\* the words an argument vector is made of
ArgWords == {"d1", "c", "-", "--"}

\* the characters of an option argument
Digits == <<"0", "1", "2", "3", "4", "5", "6", "7", "8", "9">>

\* strtol(optarg, NULL, 10) of an unsigned word: the value of the longest
\* prefix of decimal digits, 0 when there is none
RECURSIVE StrtolFrom(_, _)
StrtolFrom(word, acc) ==
    IF word = <<>> \/ ~(\E d \in 1..10 : Digits[d] = Head(word)) THEN acc
    ELSE StrtolFrom(Tail(word),
                    10 * acc + (CHOOSE d \in 1..10 : Digits[d] = Head(word)) - 1)

\* strtol(optarg, NULL, 10), with an optional sign
Strtol(word) ==
    IF word # <<>> /\ Head(word) = "-" THEN 0 - StrtolFrom(Tail(word), 0)
    ELSE StrtolFrom(word, 0)

\* the option arguments tried with -j
Optargs == { <<"0">>, <<"2">>, <<"-", "1">>, <<"x">> }

\* what getopt(argc, argv, "j:") returns for one option: -j with its
\* argument, or '?' for any other option
Options == { [opt |-> "j", arg |-> a] : a \in Optargs } \cup { [opt |-> "?", arg |-> <<>>] }

\* the getopt loop: the limit after the options os, starting from limit;
\* ok is FALSE when the loop left through errx() or exit(1)
RECURSIVE GetOpts(_, _)
GetOpts(os, limit) ==
    IF os = <<>> THEN [ok |-> TRUE, max_jobs |-> limit]
    ELSE IF Head(os).opt # "j" THEN [ok |-> FALSE, max_jobs |-> limit]
    ELSE IF Strtol(Head(os).arg) < 1
         THEN [ok |-> FALSE, max_jobs |-> Strtol(Head(os).arg)]
         ELSE GetOpts(Tail(os), Strtol(Head(os).arg))

\* the same, accepting -- only
IsDoubleDash(word) == word = "--"

\* !(strcmp("-", argv[i]) && strcmp("--", argv[i]))
IsSeparator(word) == word \in {"-", "--"}

\* the for loop: the index i (from 0, as in the code) at which it stops,
\* which is that of the first separator, or argc
RECURSIVE FirstSeparator(_, _)
FirstSeparator(argv, i) ==
    IF i >= Len(argv) THEN Len(argv)
    ELSE IF IsSeparator(argv[i + 1]) THEN i
    ELSE FirstSeparator(argv, i + 1)

\* the same without the test for a missing command
BadSeparatorFirstOnly(i, argc) == i < 1

\* if (i < 1 || i+1 >= argc) usage()
BadSeparator(i, argc) == i < 1 \/ i + 1 >= argc

\* the split of argv into directories and command; ok is FALSE when
\* usage() is called
SplitArgs(argv) ==
    LET argc == Len(argv)
        i == FirstSeparator(argv, 0)
    IN  IF argc < 2 THEN [ok |-> FALSE, num |-> 0, command |-> <<>>]
        ELSE IF i < argc
        THEN IF BadSeparator(i, argc)
             THEN [ok |-> FALSE, num |-> 0, command |-> <<>>]
             ELSE [ok |-> TRUE, num |-> i,
                   command |-> SubSeq(argv, i + 2, argc)]
        ELSE [ok |-> TRUE, num |-> 1, command |-> SubSeq(argv, 2, argc)]

\* how much the command writes to each of its streams, at most, in the runs
\* that start from the command line: something when it runs in one
\* directory, nothing when it runs in several
ArgsQuota(n) ==
    [f \in Files |-> IF n = 1 /\ f = "stdout" THEN MaxShared ELSE 0]

\* usage(), errx(1, ...) or exit(1): the program ends with code 1 before
\* anything is started
UsageExit ==
    /\ pc' = "usage"
    /\ exit_code' = 1
    /\ UNCHANGED <<command, max_jobs, directories, quota, child, pipe, wopen,
                   wrote, inherited>>

\* parse_options(argc, argv).  With the directories known, the tables of the
\* environment get an entry for each job that may be started.
ParseOptions ==
    /\ pc = "parse"
    /\ LET o == GetOpts(opts, 1)
           a == SplitArgs(args)
       IN  IF ~o.ok \/ ~a.ok
           THEN UsageExit
           ELSE /\ max_jobs' = o.max_jobs
                /\ directories' = SubSeq(args, 1, a.num)
                /\ command' = a.command
                /\ quota' = ArgsQuota(a.num)
                /\ child' = [j \in 1..a.num |-> Unborn]
                /\ pipe' = [j \in 1..a.num |-> [f \in Files |-> <<>>]]
                /\ wopen' = [j \in 1..a.num |-> [f \in Files |-> FALSE]]
                /\ wrote' = [j \in 1..a.num |-> [f \in Files |-> <<>>]]
                /\ inherited' = [j \in 1..a.num |-> <<>>]
                /\ pc' = "start"
                /\ exit_code' = exit_code
    /\ UNCHANGED <<opts, args, linebuf, directory, num_jobs, status, piper_fds,
                   piper, piper_next, intr, listv, nonzero, outv>>

(* --------------------------- specification ----------------------------- *)

Main ==
    \/ StartJob
    \/ StartJobFail
    \/ EnterSelect
    \/ SelectPoll
    \/ SelectWake
    \/ ReadData
    \/ ReadAgain
    \/ ReadEof
    \/ ReadFail
    \/ Reap
    \/ ReapDone

Children ==
    \E j \in Jobs :
        \/ \E f \in Files, c \in Bytes : ChildWrite(j, f, c)
        \/ ChildExit(j)
        \/ \E how \in ExitKinds : ChildZombie(j, how)
        \/ ChildErr(j)
        \/ ChildErrExit(j)

Next == Main \/ Children

Spec == Init /\ [][Next]_vars

\* argument vectors of at most MaxArgs words
ArgVectors == UNION { [1..n -> ArgWords] : n \in 0..MaxArgs }

\* option lists of at most MaxOpts options
OptVectors == UNION { [1..n -> Options] : n \in 0..MaxOpts }

\* main() on entry: nothing parsed, nothing started
ArgsInit ==
    /\ opts \in OptVectors
    /\ args \in ArgVectors
    /\ command = <<>>
    /\ max_jobs = 1
    /\ directories = <<>>
    /\ linebuf = TRUE
    /\ quota = [f \in Files |-> 0]
    /\ pc = "parse"
    /\ directory = 0
    /\ num_jobs = 0
    /\ status = 0
    /\ pipers = <<>>
    /\ heap = <<>>
    /\ rdopen = {}
    /\ piper_fds = {}
    /\ piper = NULL
    /\ piper_next = NULL
    /\ intr = FALSE
    /\ exit_code = -1
    /\ child = <<>>
    /\ pipe = <<>>
    /\ wopen = <<>>
    /\ wrote = <<>>
    /\ nonzero = FALSE
    /\ inherited = <<>>
    /\ sink = [f \in Files |-> <<>>]
    /\ flushed = 0

ArgsNext == ParseOptions \/ Next

\* the whole program, from the command line on
ArgsSpec == ArgsInit /\ [][ArgsNext]_vars

(* ------------------------- what the claims use ------------------------- *)

\* the jobs started so far
Started == { j \in Jobs : child[j].state # "unborn" }

\* children started and not yet reaped
Active == { j \in Jobs : child[j].state \in {"running", "err", "exiting", "zombie"} }

\* what the piper reading in_fd has written to its out_file so far
Written(fd) == SelectSeq(sink[fd[2]], LAMBDA it : it.src = fd)

\* the data bytes among written items
DataOf(items) == TextOf(SelectSeq(items, LAMBDA it : it.kind = "data"))

\* the bytes the piper reading fd has taken from its pipe so far
Consumed(fd) ==
    SubSeq(wrote[fd[1]][fd[2]], 1,
           Len(wrote[fd[1]][fd[2]]) - Len(pipe[fd[1]][fd[2]]))

\* the pipe read ends of the jobs started so far
Fds == { Fd(j, f) : j \in Started, f \in Files }

\* a byte stream with "<dir>: " before the first byte of each line
RECURSIVE Prefixed(_, _, _)
Prefixed(dir, bytes, i) ==
    IF i > Len(bytes) THEN <<>>
    ELSE (IF i = 1 \/ bytes[i - 1] = "\n" THEN <<dir \o ": ">> ELSE <<>>)
         \o <<bytes[i]>> \o Prefixed(dir, bytes, i + 1)

(* ---------------------------------------------------------------------- *)
(* C1: the number of children started and not yet reaped, which is what   *)
(* num_jobs counts, never exceeds the limit max_jobs.                     *)
(* ---------------------------------------------------------------------- *)
C1_JobsWithinLimit ==
    /\ num_jobs = Cardinality(Active)
    /\ Cardinality(Active) <= max_jobs

\* the limit is reached while directories are still queued
C1_Witness ==
    /\ num_jobs = max_jobs
    /\ directory < num_directories
    /\ pc = "sleep"

(* ---------------------------------------------------------------------- *)
(* C2: every queued directory is eventually started.  Stated so that a    *)
(* finite run refutes it: while a directory is queued and no fatal error  *)
(* occurred, the run is never at a point where neither the orchestrator   *)
(* nor any child can take a step.                                          *)
(* ---------------------------------------------------------------------- *)
C2_QueuedDirectoriesGetStarted ==
    (directory < num_directories /\ pc # "fatal") => ENABLED Next

(* ---------------------------------------------------------------------- *)
(* C3: when main returns, the exit code is 0 if every child ended with    *)
(* wait status 0 and 1 otherwise.                                          *)
(* ---------------------------------------------------------------------- *)
C3_ExitCodeAggregates ==
    pc = "done" => exit_code = (IF nonzero THEN 1 ELSE 0)

\* the run ended normally after a child was killed by a signal or exited
\* with a code other than 0
C3_Witness ==
    /\ pc = "done"
    /\ nonzero
    /\ exit_code = 1

(* ---------------------------------------------------------------------- *)
(* C4: main returns only with every directory started, no job active and  *)
(* no piper left; by then every byte written to a pipe has been read and   *)
(* written to the piper's out_file, and stdout has been flushed.           *)
(* ---------------------------------------------------------------------- *)
C4_LoopEndsWhenAllDone ==
    pc = "done" =>
        /\ directory = num_directories
        /\ num_jobs = 0
        /\ pipers = <<>>
        /\ \A j \in Jobs : child[j].state = "reaped"
        /\ \A fd \in Fds :
              /\ pipe[fd[1]][fd[2]] = <<>>
              /\ DataOf(Written(fd)) = wrote[fd[1]][fd[2]]
        /\ flushed = Len(sink["stdout"])

\* the run ended normally and some command had written output
C4_Witness ==
    /\ pc = "done"
    /\ \E j \in Jobs : wrote[j]["stdout"] # <<>> /\ child[j].path = "exec"

(* ---------------------------------------------------------------------- *)
(* C5: what a piper has written to its out_file is the bytes it has read  *)
(* so far with "<directory>: " before the first byte of each line, and    *)
(* nothing else, however the stream was split into reads.                  *)
(* ---------------------------------------------------------------------- *)
C5_PrefixAtLineStartOnly ==
    \A fd \in Fds :
        TextOf(Written(fd)) = Prefixed(directories[fd[1]], Consumed(fd), 1)

\* a piper has written the beginning of a line in an earlier read and is
\* about to read the rest of it
C5_Witness ==
    /\ pc = "read"
    /\ piper \in DOMAIN heap
    /\ ~heap[piper].newline
    /\ Written(piper) # <<>>
    /\ pipe[piper[1]][piper[2]] # <<>>

(* ---------------------------------------------------------------------- *)
(* C6: at every point, the data bytes a piper has written, followed by    *)
(* what is still in its pipe, are exactly the bytes written to that pipe, *)
(* in order: nothing is dropped, duplicated or reordered.                  *)
(* ---------------------------------------------------------------------- *)
C6_ByteOrderPreserved ==
    \A fd \in Fds :
        DataOf(Written(fd)) \o pipe[fd[1]][fd[2]] = wrote[fd[1]][fd[2]]

\* two pipers have written output and one of them has more to read
C6_Witness ==
    \E fd \in Fds, other \in Fds :
        /\ fd # other
        /\ Written(fd) # <<>>
        /\ Written(other) # <<>>
        /\ pipe[fd[1]][fd[2]] # <<>>

\* index of the last item the piper reading fd has written to stream f
LastFrom(f, fd) ==
    CHOOSE i \in 1..Len(sink[f]) :
        /\ sink[f][i].src = fd
        /\ \A k \in (i + 1)..Len(sink[f]) : sink[f][k].src # fd

(* ---------------------------------------------------------------------- *)
(* C7: once a piper has begun a line on a sink, no byte of a different    *)
(* job is written to that sink before the line's terminator or the        *)
(* piper's end of stream.                                                  *)
(* ---------------------------------------------------------------------- *)
C7_NoPartialLineInterleaving ==
    \A i \in 1..Len(pipers) :
        LET fd == pipers[i]
            f == heap[fd].out_file
        IN  (Written(fd) # <<>> /\ ~heap[fd].newline) =>
                \A k \in (LastFrom(f, fd) + 1)..Len(sink[f]) :
                    sink[f][k].src[1] = fd[1]

(* ---------------------------------------------------------------------- *)
(* C7, weaker: the prefix of a line and the line's first byte are         *)
(* written together: in every sink, a prefix is directly followed by a    *)
(* data byte of the same piper.                                            *)
(* ---------------------------------------------------------------------- *)
C7_PrefixStaysWithFirstByte ==
    \A f \in Files : \A i \in 1..Len(sink[f]) :
        sink[f][i].kind = "prefix" =>
            /\ i < Len(sink[f])
            /\ sink[f][i + 1].src = sink[f][i].src
            /\ sink[f][i + 1].kind = "data"

\* on stdout, a line of one job that is not yet terminated is followed by
\* the prefix and a byte of another job
C7_Witness ==
    \E i \in 1..Len(pipers) :
        LET fd == pipers[i]
        IN  /\ fd[2] = "stdout"
            /\ Written(fd) # <<>>
            /\ ~heap[fd].newline
            /\ LastFrom("stdout", fd) + 2 <= Len(sink["stdout"])
            /\ sink["stdout"][LastFrom("stdout", fd) + 1].kind = "prefix"
            /\ sink["stdout"][LastFrom("stdout", fd) + 1].src[1] # fd[1]

\* -j1 over d1, d2 where each command prints at most one empty line on its
\* standard output and exits with 0
EchoRun ==
    /\ max_jobs = 1
    /\ directories = <<"d1", "d2">>
    /\ \A j \in Started :
          /\ child[j].path = "exec"
          /\ wrote[j]["stderr"] = <<>>
          /\ wrote[j]["stdout"] \in {<<>>, <<"\n">>}
    /\ ~nonzero

(* ---------------------------------------------------------------------- *)
(* C8: with max_jobs = 1 and directories d1, d2, every output byte of d1  *)
(* is written before any output byte of d2; when each command printed one *)
(* line and exited with 0, the output is d1's line, then d2's line, and   *)
(* the exit code is 0.                                                     *)
(* ---------------------------------------------------------------------- *)
C8_OrderPreservedWithOneJob ==
    EchoRun =>
        /\ \A i \in 1..Len(sink["stdout"]) : \A k \in 1..Len(sink["stdout"]) :
              i < k => sink["stdout"][i].src[1] <= sink["stdout"][k].src[1]
        /\ (pc = "done" /\ \A j \in Jobs : wrote[j]["stdout"] = <<"\n">>)
           => /\ TextOf(sink["stdout"]) = <<"d1: ", "\n", "d2: ", "\n">>
              /\ exit_code = 0

\* jobs whose child left through the chdir/exec failure path
FailedJobs == { j \in Jobs : child[j].path = "chdir" }

(* ---------------------------------------------------------------------- *)
(* C9: a failing job is contained.  With a failed child reaped, the       *)
(* aggregate status is 1; the inner loop still starts the next directory   *)
(* whenever the limit allows; a job whose child left through the          *)
(* chdir/exec failure path, before any command ran, contributes nothing   *)
(* to the combined standard output; and when main returns after such a    *)
(* failure, every directory has been started, every child reaped, the     *)
(* exit code is 1, and the child's diagnostic has been written to stderr  *)
(* behind its directory's prefix.                                          *)
(* ---------------------------------------------------------------------- *)
C9_JobFailureIsContained ==
    /\ (\E j \in FailedJobs : child[j].state = "reaped") => status = 1
    /\ (pc = "start" /\ num_jobs < max_jobs /\ directory < num_directories)
           => ENABLED StartJob
    /\ \A j \in FailedJobs : Written(Fd(j, "stdout")) = <<>>
    /\ (pc = "done" /\ FailedJobs # {}) =>
           /\ exit_code = 1
           /\ Started = Jobs
           /\ \A j \in Jobs : child[j].state = "reaped"
           /\ \A j \in FailedJobs :
                 TextOf(Written(Fd(j, "stderr")))
                     = <<directories[j] \o ": ">> \o Diag

\* number of newlines in a text
Newlines(text) == Len(SelectSeq(text, LAMBDA c : c = "\n"))

(* ---------------------------------------------------------------------- *)
(* C10: the jobs started are the entries of the directory list, in list   *)
(* order and each once; every piper carries the directory of its own job; *)
(* and a directory listed twice gives two jobs whose outputs are prefixed *)
(* independently: two commands printing one line each give two lines.      *)
(* ---------------------------------------------------------------------- *)
C10_JobsFollowDirectoryList ==
    /\ Started = 1..directory
    /\ \A fd \in DOMAIN heap :
          /\ fd[1] \in Started
          /\ heap[fd].in_fd = fd
          /\ heap[fd].prefix = directories[fd[1]]
    /\ \A j \in Started : \A f \in Files :
          Fd(j, f) \in DOMAIN heap \/ ~wopen[j][f]
    /\ ( /\ pc = "done"
         /\ num_directories = 2
         /\ directories[1] = directories[2]
         /\ \A j \in Jobs : child[j].path = "exec" /\ wrote[j]["stdout"] = <<"\n">> )
       => /\ \A j \in Jobs :
               TextOf(Written(Fd(j, "stdout"))) = <<directories[j] \o ": ", "\n">>
          /\ Newlines(TextOf(sink["stdout"])) = 2
          /\ Len(sink["stdout"]) = 4

\* the same directory was given twice, both commands printed a line, and
\* the run ended normally
C10_Witness ==
    /\ pc = "done"
    /\ directories = <<"d1", "d1">>
    /\ \A j \in Jobs : child[j].path = "exec" /\ wrote[j]["stdout"] = <<"\n">>
    /\ Len(sink["stdout"]) = 4

(* ---------------------------------------------------------------------- *)
(* C11: every complete prefixed line is on the output device before the   *)
(* orchestrator next blocks: whenever it is about to wait or waits in     *)
(* select(), everything written to stdout up to the last newline has been *)
(* flushed.                                                                *)
(* ---------------------------------------------------------------------- *)
C11_LinesFlushedBeforeWaiting ==
    pc \in {"select", "sleep"} => flushed >= LastNewline(sink["stdout"])

\* the separator words, and the position (from 1) of the first one in an
\* argument vector (0 when there is none)
Separators == {"-", "--"}

SeparatorAt(argv) ==
    LET at == { k \in 1..Len(argv) : argv[k] \in Separators }
    IN  IF at = {} THEN 0 ELSE CHOOSE k \in at : \A m \in at : k <= m

\* every option is a -j with a limit of at least 1
OptionsValid == \A k \in 1..Len(opts) : opts[k].opt = "j" /\ Strtol(opts[k].arg) >= 1

(* ---------------------------------------------------------------------- *)
(* C12: argument splitting.  With valid options, once parse_options has   *)
(* run: if the argument vector has its first separator ("-" or "--")      *)
(* after at least one argument and before at least one, the directories   *)
(* are the arguments before it and the command is every argument after    *)
(* it; if it has at least two arguments and no separator, the only        *)
(* directory is the first argument and the command is the rest.  Every    *)
(* job started runs that command for its own directory, so without a      *)
(* separator the command runs once: a normal end finds exactly one job.   *)
(* ---------------------------------------------------------------------- *)
C12_ArgumentsSplitAtFirstSeparator ==
    (pc # "parse" /\ OptionsValid) =>
        LET k == SeparatorAt(args)
            n == Len(args)
        IN  /\ (k >= 2 /\ k < n) =>
                  /\ pc # "usage"
                  /\ directories = SubSeq(args, 1, k - 1)
                  /\ command = SubSeq(args, k + 1, n)
            /\ (k = 0 /\ n >= 2) =>
                  /\ pc # "usage"
                  /\ directories = <<args[1]>>
                  /\ command = Tail(args)
                  /\ Started \subseteq {1}
                  /\ pc = "done" => Started = {1}
            /\ \A j \in Started :
                  child[j].dir = directories[j] /\ child[j].cmd = command

\* two directories before a "-", and a command that is itself "-"; the run
\* ended normally
C12_Witness ==
    /\ pc = "done"
    /\ args = <<"d1", "c", "-", "-">>
    /\ Len(directories) = 2
    /\ command = <<"-">>

(* ---------------------------------------------------------------------- *)
(* C13: usage errors start nothing.  When an option is not a -j with a    *)
(* limit of at least 1, or there are fewer than two arguments, or the     *)
(* first separator is the first or the last argument, then once           *)
(* parse_options has run the program has ended with code 1, no child has  *)
(* been started, no piper exists and nothing more happens.                *)
(* ---------------------------------------------------------------------- *)
C13_UsageErrorsStartNothing ==
    ( /\ pc # "parse"
      /\ \/ ~OptionsValid
         \/ Len(args) < 2
         \/ SeparatorAt(args) = 1
         \/ SeparatorAt(args) = Len(args) )
    => /\ pc = "usage"
       /\ exit_code = 1
       /\ directory = 0
       /\ Started = {}
       /\ pipers = <<>> /\ heap = <<>>
       /\ \A j \in DOMAIN wopen : \A f \in Files : ~wopen[j][f]
       /\ ~ENABLED Next

\* a directory followed by a separator and no command ended in usage()
C13_Witness ==
    /\ pc = "usage"
    /\ opts = <<>>
    /\ args = <<"d1", "--">>

(* ---------------------------------------------------------------------- *)
(* C14: the pipe read ends the orchestrator holds open are exactly the    *)
(* in_fd of the live pipers: a piper removed at end of file has had its   *)
(* read end closed.                                                        *)
(* ---------------------------------------------------------------------- *)
C14_OpenReadEndsAreLivePipers ==
    rdopen = { heap[p].in_fd : p \in DOMAIN heap }

\* the read() of the current piper would block: its pipe is empty and a
\* write end is open
WouldBlock ==
    /\ pc = "read"
    /\ pipe[piper[1]][piper[2]] = <<>>
    /\ wopen[piper[1]][piper[2]]

\* the orchestrator takes a step
MainSteps == <<pc, piper, directory, num_jobs, status>>' # <<pc, piper, directory, num_jobs, status>>

(* ---------------------------------------------------------------------- *)
(* C15: a read that would block is not an error: the step the             *)
(* orchestrator then takes, unless read() fails otherwise, leaves the     *)
(* list, every piper and its newline flag as they are, and the run goes   *)
(* on with the next piper or with collecting exits.  After a fatal error  *)
(* the exit code is 1 and the orchestrator does nothing more: no job is   *)
(* started, no piper run.                                                  *)
(* ---------------------------------------------------------------------- *)
C15_WouldBlockGoesOnOtherErrorsEnd ==
    /\ [](pc = "fatal" => exit_code = 1)
    /\ [][ /\ (WouldBlock /\ MainSteps /\ pc' # "fatal") =>
                /\ pipers' = pipers
                /\ heap' = heap
                /\ exit_code' = -1
                /\ pc' \in {"read", "reap"}
           /\ pc = "fatal" =>
                UNCHANGED <<pc, exit_code, directory, num_jobs, status,
                            pipers, heap, sink>> ]_vars

\* a piper wrote the beginning of a line, its next read would have blocked,
\* and it is still listed, in the middle of its line, while exits are
\* collected
C15_Witness ==
    /\ pc = "reap"
    /\ \E i \in 1..Len(pipers) :
          LET fd == pipers[i]
          IN  /\ Written(fd) # <<>>
              /\ ~heap[fd].newline
              /\ pipe[fd[1]][fd[2]] = <<>>
              /\ wopen[fd[1]][fd[2]]

(* ---------------------------------------------------------------------- *)
(* C16: starting a job creates exactly two pipers, both with the job's    *)
(* directory as prefix and the newline flag set, one reading the child's  *)
(* stdout and writing to stdout, one reading its stderr and writing to    *)
(* stderr.  Nothing read from one stream is ever written to the other     *)
(* sink, and no piper's in_fd, prefix or out_file changes while it lives. *)
(* ---------------------------------------------------------------------- *)
C16_TwoPipersPerJobEachToItsSink ==
    /\ [](/\ \A fd \in DOMAIN heap :
                heap[fd].out_file = fd[2] /\ heap[fd].prefix = directories[fd[1]]
          /\ \A f \in Files : \A i \in 1..Len(sink[f]) : sink[f][i].src[2] = f)
    /\ [][ /\ directory' # directory =>
                LET new == DOMAIN heap' \ DOMAIN heap
                IN  /\ Cardinality(new) = 2
                    /\ DOMAIN heap \subseteq DOMAIN heap'
                    /\ Len(pipers') = Len(pipers) + 2
                    /\ { heap'[p].out_file : p \in new } = Files
                    /\ \A p \in new :
                          /\ heap'[p].newline
                          /\ heap'[p].prefix = directories[directory']
                          /\ heap'[p].in_fd = Fd(directory', heap'[p].out_file)
           /\ directory' = directory => DOMAIN heap' \subseteq DOMAIN heap
           /\ \A p \in DOMAIN heap \cap DOMAIN heap' :
                /\ heap'[p].in_fd = heap[p].in_fd
                /\ heap'[p].prefix = heap[p].prefix
                /\ heap'[p].out_file = heap[p].out_file ]_vars

\* both pipers of a job have written output, each to its own sink
C16_Witness ==
    \E j \in Started :
        /\ Written(Fd(j, "stdout")) # <<>>
        /\ Written(Fd(j, "stderr")) # <<>>
        /\ sink["stdout"] # <<>>
        /\ sink["stderr"] # <<>>

\* the jobs whose child has been reaped
Reaped == { j \in Jobs : child[j].state = "reaped" }

\* the pipers in the list
Listed == { pipers[i] : i \in 1..Len(pipers) }

(* ---------------------------------------------------------------------- *)
(* C17: reaping a child and the end of file of its two pipers are handled *)
(* in every order.  num_jobs is the number of jobs started less the       *)
(* children reaped, one decrement per child, and a reaped child stays     *)
(* reaped; every piper is in the list exactly as long as it is allocated, *)
(* once, and a piper that has been removed does not come back; and a      *)
(* piper is removed only with its pipe closed and drained and all of its  *)
(* bytes written, also when its child was reaped long before.              *)
(* ---------------------------------------------------------------------- *)
C17_ReapAndEndOfFileInAnyOrder ==
    /\ [](/\ num_jobs = directory - Cardinality(Reaped)
          /\ Cardinality(Listed) = Len(pipers)
          /\ Listed = DOMAIN heap
          /\ \A fd \in Fds \ Listed :
                /\ ~wopen[fd[1]][fd[2]]
                /\ pipe[fd[1]][fd[2]] = <<>>
                /\ DataOf(Written(fd)) = wrote[fd[1]][fd[2]])
    /\ [][ /\ \A fd \in Fds \ Listed : fd \notin DOMAIN heap'
           /\ \A j \in Reaped : child'[j].state = "reaped"
           /\ num_jobs' >= num_jobs - 1
           /\ Len(pipers') >= Len(pipers) - 1 ]_vars

\* a child has been reaped while both of its pipers are still listed and
\* its output is still in the pipe
C17_Witness ==
    \E j \in Reaped :
        /\ Fd(j, "stdout") \in Listed
        /\ Fd(j, "stderr") \in Listed
        /\ pipe[j]["stdout"] # <<>>

(* ---------------------------------------------------------------------- *)
(* C18: every child exit is eventually reaped.  Stated so that a finite   *)
(* run refutes it: while a child that has exited is unreaped and no fatal *)
(* error occurred, the run is never at a point where nothing can happen   *)
(* any more, with the orchestrator asleep in select().                     *)
(* ---------------------------------------------------------------------- *)
C18_ExitedChildIsReaped ==
    (Zombies # {} /\ pc # "fatal") => (pc # "sleep" \/ ENABLED Next)

\* number of bytes the commands of jobs 1..j wrote to their standard output
RECURSIVE CommandBytes(_)
CommandBytes(j) ==
    IF j = 0 THEN 0
    ELSE CommandBytes(j - 1)
         + (IF child[j].path = "exec" THEN Len(wrote[j]["stdout"]) ELSE 0)

(* ---------------------------------------------------------------------- *)
(* C19: no output byte is emitted more than once.  A child that leaves    *)
(* through the chdir/exec failure path, never running the command, puts   *)
(* nothing into its standard output pipe, and the data bytes on the       *)
(* combined standard output are never more than the bytes the commands    *)
(* wrote to their standard outputs.                                        *)
(* ---------------------------------------------------------------------- *)
C19_NoByteEmittedTwice ==
    /\ \A j \in Started :
          child[j].path = "chdir" =>
              pipe[j]["stdout"] = <<>> /\ wrote[j]["stdout"] = <<>>
    /\ Len(DataOf(sink["stdout"])) <= CommandBytes(num_directories)

====
